---------------------------- MODULE Spec2Model ----------------------------
(***************************************************************************)
(* Model of proj.py: a one-shot script that provisions a Kubernetes        *)
(* service account through a linear sequence of kubectl invocations.       *)
(*                                                                         *)
(* One behaviour of the model is one run of the script.  The command line  *)
(* (username, role, namespace, dry_run), the content of the working        *)
(* directory and of the cluster at start, and the outcome of every kubectl *)
(* invocation are chosen by the environment.                               *)
(***************************************************************************)
EXTENDS Integers, Sequences, FiniteSets, TLC

VARIABLES
    username,   \* args.username
    role,       \* args.role, as typed on the command line
    namespace,  \* args.namespace
    dry_run,    \* args.dry_run
    pc,         \* position of the run in the script
    calls,      \* the subprocess.run invocations made so far, with their outcome
    out,        \* the lines printed so far
    files,      \* names of the files present in the working directory
    files0,     \* the files present when the run started
    dumped,     \* what yaml.dump wrote into the descriptor file, NoDump before
    cluster,    \* the objects in the cluster
    cluster0,   \* the objects in the cluster when the run started
    exitCode    \* exit status of the process, -1 while it runs

vars == <<username, role, namespace, dry_run, pc, calls, out, files, files0,
          dumped, cluster, cluster0, exitCode>>

(***************************************************************************)
(* Inputs the environment draws from.                                      *)
(***************************************************************************)
Usernames == {"alice", "bob"}

Namespaces == {"staging", "prod"}

\* choices= of the --role argument
RoleChoices == {"product-team-role", "lead-developer-team-role", "cs-team-role", "operator"}

\* what a user may type after --role: the four choices and one other word
RoleInputs == RoleChoices \cup {"admin"}

\* outcomes of a kubectl invocation: exit status and diagnostic text
CommandResults ==
    { [rc |-> 0, stderr |-> ""],
      [rc |-> 1, stderr |-> "NotFound"],
      [rc |-> 1, stderr |-> "Unauthorized"] }

NoDump == [apiVersion |-> "", kind |-> "",
           metadata |-> [name |-> "", namespace |-> "", annotations |-> [k \in {} |-> ""]],
           type |-> ""]

(***************************************************************************)
(* String helpers.                                                         *)
(***************************************************************************)
RECURSIVE Join(_)
\* ' '.join(cmd)
Join(cmd) ==
    IF cmd = <<>> THEN ""
    ELSE IF Len(cmd) = 1 THEN cmd[1]
    ELSE cmd[1] \o " " \o Join(Tail(cmd))

(***************************************************************************)
(* The values create_service_account computes from its arguments.          *)
(***************************************************************************)
dry_run_flag == IF dry_run THEN <<"--dry-run=client">> ELSE <<>>

ensure_namespace_cmd == <<"kubectl", "get", "namespace", namespace>>

create_ns_cmd == <<"kubectl", "create", "namespace", namespace>> \o dry_run_flag

\* the service-account command without the dry-run flag
C9_mut_create_sa_cmd ==
    <<"kubectl", "create", "serviceaccount", username, "--namespace", namespace>>

create_sa_cmd ==
    <<"kubectl", "create", "serviceaccount", username, "--namespace", namespace>>
        \o dry_run_flag

\* the two parts of the binding name swapped
C8_mut_binding_name == role \o "-" \o username \o "-binding"

binding_name == username \o "-" \o role \o "-binding"

\* both create invocations issue the service-account command
C1_mut_bind_role_cmd ==
    <<"kubectl", "create", "serviceaccount", username, "--namespace", namespace>>
        \o dry_run_flag

bind_role_cmd ==
    <<"kubectl", "create", "rolebinding", binding_name,
      "--clusterrole", role, "--serviceaccount=" \o namespace \o ":" \o username,
      "--namespace", namespace>> \o dry_run_flag

secret_name == username \o "-token"

secret_yaml ==
    [apiVersion |-> "v1",
     kind |-> "Secret",
     metadata |-> [name |-> secret_name,
                   namespace |-> namespace,
                   annotations |-> [k \in {"kubernetes.io/service-account.name"}
                                           |-> username]],
     type |-> "kubernetes.io/service-account-token"]

secret_file == secret_name \o ".yaml"

\* the apply command without the dry-run flag
C5_mut_create_secret_cmd == <<"kubectl", "apply", "-f", secret_file>>

create_secret_cmd == <<"kubectl", "apply", "-f", secret_file>> \o dry_run_flag

(***************************************************************************)
(* The cluster, as far as the script can change it: a kubectl create or    *)
(* apply that exits 0 and was not given --dry-run=client adds the object   *)
(* it names; every other invocation leaves the cluster alone.              *)
(***************************************************************************)
HasFlag(cmd, flag) == \E i \in 1..Len(cmd) : cmd[i] = flag

NamespaceObject(ns) == [kind |-> "namespace", name |-> ns, namespace |-> ""]

ObjectOf(cmd) ==
    IF cmd[2] = "apply"
        THEN [kind |-> "secret", name |-> dumped.metadata.name,
              namespace |-> dumped.metadata.namespace]
    ELSE IF cmd[3] = "namespace" THEN NamespaceObject(cmd[4])
    ELSE IF cmd[3] = "serviceaccount"
        THEN [kind |-> "serviceaccount", name |-> cmd[4], namespace |-> cmd[6]]
    ELSE [kind |-> "rolebinding", name |-> cmd[4], namespace |-> cmd[9]]

KubectlEffect(cmd, res) ==
    IF res.rc = 0 /\ cmd[2] \in {"create", "apply"} /\ ~HasFlag(cmd, "--dry-run=client")
        THEN cluster \cup {ObjectOf(cmd)}
        ELSE cluster

(***************************************************************************)
(* run_command(cmd) with outcome res: the invocation is made, and on a     *)
(* non-zero exit the command line and the diagnostic text are printed and  *)
(* SystemExit(1) is raised.  Raised(res) tells the caller which happened.  *)
(***************************************************************************)
Raised(res) == res.rc # 0

ErrorLines(cmd, res) ==
    IF Raised(res) THEN <<"Error running command: " \o Join(cmd), res.stderr>> ELSE <<>>

run_command(cmd, res) ==
    /\ calls' = Append(calls, [argv |-> cmd, rc |-> res.rc, stderr |-> res.stderr])
    /\ cluster' = KubectlEffect(cmd, res)

\* sys.exit(code) reaching the top level
SysExit(code) ==
    /\ pc' = "exited"
    /\ exitCode' = code

(***************************************************************************)
(* State after the process is started.                                     *)
(***************************************************************************)
Init ==
    /\ username \in Usernames
    /\ role \in RoleInputs
    /\ namespace \in Namespaces
    /\ dry_run \in BOOLEAN
    /\ pc = "main"
    /\ calls = <<>>
    /\ out = <<>>
    /\ files0 \in SUBSET {secret_file}
    /\ files = files0
    /\ dumped = NoDump
    /\ cluster0 \in SUBSET {NamespaceObject(namespace)}
    /\ cluster = cluster0
    /\ exitCode = -1

(***************************************************************************)
(* __main__: argparse rejects a role outside choices with exit status 2,   *)
(* otherwise create_service_account is entered and prints its first line.  *)
(***************************************************************************)
\* a parser without choices=
C7_mut_ParseArgs ==
    /\ pc = "main"
    /\ pc' = "get_ns"
    /\ out' = Append(out, "Ensuring namespace '" \o namespace \o "' exists...")
    /\ UNCHANGED <<username, role, namespace, dry_run, calls, files, files0,
                   dumped, cluster, cluster0, exitCode>>

ParseArgs ==
    /\ pc = "main"
    /\ IF role \in RoleChoices
          THEN /\ pc' = "get_ns"
               /\ out' = Append(out, "Ensuring namespace '" \o namespace \o "' exists...")
               /\ UNCHANGED exitCode
          ELSE /\ SysExit(2)
               /\ out' = Append(out, "error: argument --role: invalid choice")
    /\ UNCHANGED <<username, role, namespace, dry_run, calls, files, files0,
                   dumped, cluster, cluster0>>

\* the create-namespace branch taken whatever the query returned
C4_mut_GetNamespace ==
    /\ pc = "get_ns"
    /\ \E res \in CommandResults :
        /\ run_command(ensure_namespace_cmd, res)
        /\ pc' = "create_ns"
        /\ out' = out \o ErrorLines(ensure_namespace_cmd, res)
    /\ UNCHANGED <<username, role, namespace, dry_run, files, files0, dumped, cluster0, exitCode>>

\* Step 1, the query: SystemExit raised by run_command is caught
GetNamespace ==
    /\ pc = "get_ns"
    /\ \E res \in CommandResults :
        /\ run_command(ensure_namespace_cmd, res)
        /\ IF Raised(res)
              THEN /\ pc' = "create_ns"
                   /\ out' = out \o ErrorLines(ensure_namespace_cmd, res)
              ELSE /\ pc' = "create_sa"
                   /\ out' = out \o <<"Namespace '" \o namespace \o "' already exists.",
                                      "Creating service account '" \o username
                                          \o "' in namespace '" \o namespace \o "'...">>
    /\ UNCHANGED <<username, role, namespace, dry_run, files, files0, dumped, cluster0, exitCode>>

\* Step 1, the except branch
CreateNamespace ==
    /\ pc = "create_ns"
    /\ \E res \in CommandResults :
        /\ run_command(create_ns_cmd, res)
        /\ IF Raised(res)
              THEN /\ SysExit(1)
                   /\ out' = out \o ErrorLines(create_ns_cmd, res)
              ELSE /\ pc' = "create_sa"
                   /\ out' = out \o <<"Namespace '" \o namespace \o "' created successfully.",
                                      "Creating service account '" \o username
                                          \o "' in namespace '" \o namespace \o "'...">>
                   /\ UNCHANGED exitCode
    /\ UNCHANGED <<username, role, namespace, dry_run, files, files0, dumped, cluster0>>

\* SystemExit caught in step 2 as it is in step 1
C2_mut_CreateServiceAccount ==
    /\ pc = "create_sa"
    /\ \E res \in CommandResults :
        /\ run_command(create_sa_cmd, res)
        /\ pc' = "bind_role"
        /\ out' = out \o ErrorLines(create_sa_cmd, res)
    /\ UNCHANGED <<username, role, namespace, dry_run, files, files0, dumped, cluster0, exitCode>>

\* Step 2
CreateServiceAccount ==
    /\ pc = "create_sa"
    /\ \E res \in CommandResults :
        /\ run_command(create_sa_cmd, res)
        /\ IF Raised(res)
              THEN /\ SysExit(1)
                   /\ out' = out \o ErrorLines(create_sa_cmd, res)
              ELSE /\ pc' = "bind_role"
                   /\ out' = out \o <<"Service account '" \o username \o "' created successfully.",
                                      "Binding service account '" \o username
                                          \o "' to role '" \o role \o "'...">>
                   /\ UNCHANGED exitCode
    /\ UNCHANGED <<username, role, namespace, dry_run, files, files0, dumped, cluster0>>

\* Step 3
BindRole ==
    /\ pc = "bind_role"
    /\ \E res \in CommandResults :
        /\ run_command(bind_role_cmd, res)
        /\ IF Raised(res)
              THEN /\ SysExit(1)
                   /\ out' = out \o ErrorLines(bind_role_cmd, res)
              ELSE /\ pc' = "write_secret"
                   /\ out' = out \o <<"Service account '" \o username \o "' bound to role '"
                                          \o role \o "' successfully.",
                                      "Creating a secret for the service account '"
                                          \o username \o "'...">>
                   /\ UNCHANGED exitCode
    /\ UNCHANGED <<username, role, namespace, dry_run, files, files0, dumped, cluster0>>

\* Step 4, the descriptor is built and written: open(secret_file, "w") creates
\* the file or truncates the one that is there
WriteSecretFile ==
    /\ pc = "write_secret"
    /\ files' = files \cup {secret_file}
    /\ dumped' = secret_yaml
    /\ out' = Append(out, "Generated secret YAML file: " \o secret_file)
    /\ pc' = "apply_secret"
    /\ UNCHANGED <<username, role, namespace, dry_run, calls, files0, cluster, cluster0,
                   exitCode>>

\* Step 4, the apply
ApplySecret ==
    /\ pc = "apply_secret"
    /\ \E res \in CommandResults :
        /\ run_command(create_secret_cmd, res)
        /\ IF Raised(res)
              THEN /\ SysExit(1)
                   /\ out' = out \o ErrorLines(create_secret_cmd, res)
              ELSE /\ pc' = "cleanup"
                   /\ out' = Append(out, "Secret '" \o secret_name \o "' created in namespace '"
                                             \o namespace \o "' successfully.")
                   /\ UNCHANGED exitCode
    /\ UNCHANGED <<username, role, namespace, dry_run, files, files0, dumped, cluster0>>

\* the clean-up test inverted
C6_mut_Cleanup ==
    /\ pc = "cleanup"
    /\ files' = IF dry_run THEN files \ {secret_file} ELSE files
    /\ SysExit(0)
    /\ UNCHANGED <<username, role, namespace, dry_run, calls, out, files0, dumped,
                   cluster, cluster0>>

\* the file removed in a dry run too
C10_mut_Cleanup ==
    /\ pc = "cleanup"
    /\ files' = files \ {secret_file}
    /\ SysExit(0)
    /\ UNCHANGED <<username, role, namespace, dry_run, calls, out, files0, dumped,
                   cluster, cluster0>>

\* The clean-up, and the normal end of the process
Cleanup ==
    /\ pc = "cleanup"
    /\ files' = IF ~dry_run THEN files \ {secret_file} ELSE files
    /\ SysExit(0)
    /\ UNCHANGED <<username, role, namespace, dry_run, calls, out, files0, dumped,
                   cluster, cluster0>>

Next ==
    \/ ParseArgs
    \/ GetNamespace
    \/ CreateNamespace
    \/ CreateServiceAccount
    \/ BindRole
    \/ WriteSecretFile
    \/ ApplySecret
    \/ Cleanup

Spec == Init /\ [][Next]_vars

TypeOK ==
    /\ pc \in {"main", "get_ns", "create_ns", "create_sa", "bind_role",
               "write_secret", "apply_secret", "cleanup", "exited"}
    /\ exitCode \in {-1, 0, 1, 2}
    /\ files \subseteq {secret_file}

(***************************************************************************)
(* Vocabulary of the properties.                                           *)
(***************************************************************************)
Terminated == pc = "exited"

CallIdx == 1..Len(calls)

IsGetNs(c) == c.argv[2] = "get" /\ c.argv[3] = "namespace"

IsCreateNs(c) == c.argv[2] = "create" /\ c.argv[3] = "namespace"

IsCreateSa(c) == c.argv[2] = "create" /\ c.argv[3] = "serviceaccount"

IsCreateRb(c) == c.argv[2] = "create" /\ c.argv[3] = "rolebinding"

IsApply(c) == c.argv[2] = "apply"

IsMutating(c) == c.argv[2] \in {"create", "apply"}

Failed(c) == c.rc # 0

\* the operation an invocation belongs to
OpOf(c) ==
    IF IsGetNs(c) \/ IsCreateNs(c) THEN "namespace ensure"
    ELSE IF IsCreateSa(c) THEN "service-account create"
    ELSE IF IsCreateRb(c) THEN "role-binding create"
    ELSE IF IsApply(c) THEN "secret apply"
    ELSE "other"

FixedOps == <<"namespace ensure", "service-account create", "role-binding create",
              "secret apply">>

\* invocation i is the create-namespace half of the ensure started by the
\* failed query right before it
ContinuesEnsure(i) ==
    i > 1 /\ IsCreateNs(calls[i]) /\ IsGetNs(calls[i - 1]) /\ Failed(calls[i - 1])

RECURSIVE OpsFrom(_)
OpsFrom(i) ==
    IF i > Len(calls) THEN <<>>
    ELSE IF ContinuesEnsure(i) THEN OpsFrom(i + 1)
    ELSE <<OpOf(calls[i])>> \o OpsFrom(i + 1)

\* the operations attempted so far, in the order of their attempt
AttemptedOps == OpsFrom(1)

IsPrefix(s, t) == Len(s) <= Len(t) /\ \A i \in 1..Len(s) : s[i] = t[i]

FileWritten == dumped # NoDump

(***************************************************************************)
(* C1: for a valid command line and whatever the outcomes of the kubectl   *)
(* invocations, the operations attempted are a prefix of namespace ensure, *)
(* service-account create, role-binding create, secret apply; a run in     *)
(* which no invocation failed, and any run that ends with status 0, has    *)
(* attempted exactly these four, each once.                                *)
(***************************************************************************)
C1_OrderedOps ==
    role \in RoleChoices =>
        /\ IsPrefix(AttemptedOps, FixedOps)
        /\ (Terminated /\ (\A i \in CallIdx : ~Failed(calls[i]))) => AttemptedOps = FixedOps
        /\ (Terminated /\ exitCode = 0) => AttemptedOps = FixedOps

C1_Witness ==
    /\ Terminated /\ exitCode = 0
    /\ Len(calls) = 4
    /\ \A i \in CallIdx : ~Failed(calls[i])
    /\ AttemptedOps = FixedOps

(***************************************************************************)
(* C2 as claimed: an invocation of any step, the namespace query included, *)
(* that exits non-zero is the last invocation of the run, and the process  *)
(* has terminated with a non-zero status.                                  *)
(***************************************************************************)
C2_AnyFailureFatal ==
    \A i \in CallIdx :
        Failed(calls[i]) => i = Len(calls) /\ Terminated /\ exitCode # 0

(***************************************************************************)
(* C2 amended: an invocation other than the namespace query that exits     *)
(* non-zero is the last invocation of the run (no retry, no later step),   *)
(* the process has terminated with status 1 and nothing more can happen.   *)
(***************************************************************************)
C2_FailureFatalExceptQuery ==
    \A i \in CallIdx :
        (Failed(calls[i]) /\ ~IsGetNs(calls[i])) =>
            /\ i = Len(calls)
            /\ Terminated
            /\ exitCode = 1
            /\ ~ENABLED Next

C2_Witness ==
    /\ Terminated /\ exitCode = 1
    /\ Len(calls) = 2
    /\ ~Failed(calls[1])
    /\ IsCreateSa(calls[2]) /\ Failed(calls[2])

(***************************************************************************)
(* C3 as claimed: a namespace query that fails with "not found" is         *)
(* followed by the create-namespace invocation, and a query that fails for *)
(* another reason ends the run with a non-zero status, the query being the *)
(* only invocation made.                                                   *)
(***************************************************************************)
C3_OtherQueryFailureFatal ==
    (Len(calls) >= 1 /\ IsGetNs(calls[1]) /\ Failed(calls[1])) =>
        IF calls[1].stderr = "NotFound"
            THEN Len(calls) >= 2 => IsCreateNs(calls[2])
            ELSE Len(calls) = 1 /\ Terminated /\ exitCode # 0

(***************************************************************************)
(* C4: when the namespace query fails, the next invocation is the          *)
(* create-namespace one, and it comes before any service-account           *)
(* invocation; when the query succeeds, no create-namespace invocation is  *)
(* ever made.                                                              *)
(***************************************************************************)
C4_CreateNsIffQueryFailed ==
    Len(calls) >= 1 =>
        /\ IsGetNs(calls[1])
        /\ Failed(calls[1]) =>
              /\ \/ Len(calls) = 1 /\ pc = "create_ns"
                 \/ Len(calls) >= 2 /\ IsCreateNs(calls[2]) /\ calls[2].argv[4] = namespace
              /\ \A i \in CallIdx :
                    IsCreateSa(calls[i]) => \E j \in 1..(i - 1) : IsCreateNs(calls[j])
        /\ ~Failed(calls[1]) => \A i \in CallIdx : ~IsCreateNs(calls[i])

C4_Witness ==
    /\ Len(calls) >= 3
    /\ Failed(calls[1])
    /\ IsCreateNs(calls[2]) /\ ~Failed(calls[2])
    /\ IsCreateSa(calls[3])

(***************************************************************************)
(* C5: in a dry run every create and apply invocation carries              *)
(* --dry-run=client and the descriptor file, once written, stays on disk   *)
(* up to and after termination; outside a dry run no invocation carries    *)
(* the option.                                                             *)
(***************************************************************************)
C5_DryRunFlag ==
    /\ dry_run =>
          /\ \A i \in CallIdx :
                IsMutating(calls[i]) => HasFlag(calls[i].argv, "--dry-run=client")
          /\ FileWritten => (username \o "-token.yaml") \in files
    /\ ~dry_run => \A i \in CallIdx : ~HasFlag(calls[i].argv, "--dry-run=client")

C5_Witness ==
    /\ dry_run
    /\ Terminated /\ exitCode = 0
    /\ Len(calls) = 5
    /\ (username \o "-token.yaml") \in files
    /\ (username \o "-token.yaml") \notin files0

(***************************************************************************)
(* C6: outside a dry run the descriptor file is on disk when the apply     *)
(* invocation is made and when it returns, and it is absent once the run   *)
(* has completed (reached its end, status 0).                              *)
(***************************************************************************)
C6_FileDuringApplyGoneAfter ==
    ~dry_run =>
        /\ pc = "apply_secret" => (username \o "-token.yaml") \in files
        /\ pc = "cleanup" => (username \o "-token.yaml") \in files
        /\ (Terminated /\ exitCode = 0) => (username \o "-token.yaml") \notin files

C6_Witness ==
    /\ ~dry_run
    /\ Terminated /\ exitCode = 0
    /\ Len(calls) >= 4 /\ IsApply(calls[Len(calls)])
    /\ FileWritten
    /\ (username \o "-token.yaml") \notin files

(***************************************************************************)
(* C7: a role outside the four choices ends the run in error with no       *)
(* kubectl invocation made and no descriptor file written.                 *)
(***************************************************************************)
C7_InvalidRoleRejected ==
    role \notin {"product-team-role", "lead-developer-team-role", "cs-team-role", "operator"} =>
        /\ calls = <<>>
        /\ ~FileWritten
        /\ files = files0
        /\ cluster = cluster0
        /\ pc \in {"main", "exited"}
        /\ Terminated => exitCode \notin {-1, 0}

C7_Witness ==
    /\ role = "admin"
    /\ Terminated
    /\ exitCode = 2
    /\ calls = <<>>

(***************************************************************************)
(* C8, the names: the role binding is named {username}-{role}-binding, the *)
(* descriptor is named {username}-token in the given namespace and is      *)
(* written to {username}-token.yaml, which is the file applied.            *)
(***************************************************************************)
C8_Names ==
    /\ \A i \in CallIdx :
          /\ IsCreateRb(calls[i]) =>
                /\ calls[i].argv[4] = username \o "-" \o role \o "-binding"
                /\ (username = "alice" /\ role = "operator") =>
                      calls[i].argv[4] = "alice-operator-binding"
          /\ IsApply(calls[i]) =>
                /\ calls[i].argv[4] = username \o "-token.yaml"
                /\ username = "alice" => calls[i].argv[4] = "alice-token.yaml"
    /\ FileWritten =>
          /\ dumped.metadata.name = username \o "-token"
          /\ dumped.metadata.namespace = namespace
          /\ username = "alice" => dumped.metadata.name = "alice-token"
    /\ (files \ files0) \subseteq {username \o "-token.yaml"}

(***************************************************************************)
(* C8 as claimed: the names above, and the annotation mapping of the       *)
(* descriptor is the single entry service-account-name -> username.        *)
(***************************************************************************)
C8_NamesAndAnnotationAsClaimed ==
    /\ C8_Names
    /\ FileWritten =>
          /\ DOMAIN dumped.metadata.annotations = {"service-account-name"}
          /\ dumped.metadata.annotations["service-account-name"] = username

(***************************************************************************)
(* C8 amended: the names above, and the annotation mapping of the          *)
(* descriptor is the single entry kubernetes.io/service-account.name ->    *)
(* username.                                                               *)
(***************************************************************************)
C8_NamesAndAnnotation ==
    /\ C8_Names
    /\ FileWritten =>
          /\ DOMAIN dumped.metadata.annotations = {"kubernetes.io/service-account.name"}
          /\ dumped.metadata.annotations["kubernetes.io/service-account.name"] = username
          /\ username = "alice" =>
                dumped.metadata.annotations["kubernetes.io/service-account.name"] = "alice"

C8_Witness ==
    /\ username = "alice" /\ role = "operator" /\ namespace = "staging" /\ ~dry_run
    /\ Terminated /\ exitCode = 0
    /\ \E i \in CallIdx : IsCreateRb(calls[i]) /\ calls[i].argv[4] = "alice-operator-binding"
    /\ dumped.metadata.name = "alice-token"

(***************************************************************************)
(* C9: outside a dry run, every object a successful create or apply made   *)
(* is in the cluster from then on, in particular at a termination caused   *)
(* by a later failure, and nothing that was in the cluster at start is     *)
(* removed; in a dry run the cluster is at all times what it was at start. *)
(***************************************************************************)
C9_NoRollback ==
    /\ cluster0 \subseteq cluster
    /\ ~dry_run =>
          \A i \in CallIdx :
              ~Failed(calls[i]) =>
                  /\ IsCreateNs(calls[i]) =>
                        [kind |-> "namespace", name |-> namespace, namespace |-> ""] \in cluster
                  /\ IsCreateSa(calls[i]) =>
                        [kind |-> "serviceaccount", name |-> username,
                         namespace |-> namespace] \in cluster
                  /\ IsCreateRb(calls[i]) =>
                        [kind |-> "rolebinding",
                         name |-> username \o "-" \o role \o "-binding",
                         namespace |-> namespace] \in cluster
                  /\ IsApply(calls[i]) =>
                        [kind |-> "secret", name |-> username \o "-token",
                         namespace |-> namespace] \in cluster
    /\ dry_run => cluster = cluster0

C9_Witness ==
    /\ ~dry_run
    /\ Terminated /\ exitCode = 1
    /\ Len(calls) = 5 /\ IsApply(calls[5]) /\ Failed(calls[5])
    /\ cluster0 = {}
    /\ Cardinality(cluster) = 3

(***************************************************************************)
(* Step 4 is reached when the role-binding invocation has succeeded.       *)
(***************************************************************************)
Step4Reached == \E i \in CallIdx : IsCreateRb(calls[i]) /\ ~Failed(calls[i])

ApplyFailed == \E i \in CallIdx : IsApply(calls[i]) /\ Failed(calls[i])

\* the descriptor file is written only after steps 1 to 3 have succeeded
WrittenAfterThreeSteps ==
    FileWritten =>
        /\ Step4Reached
        /\ \E i \in CallIdx : IsCreateSa(calls[i]) /\ ~Failed(calls[i])
        /\ \/ ~Failed(calls[1])
           \/ Len(calls) >= 2 /\ IsCreateNs(calls[2]) /\ ~Failed(calls[2])

(***************************************************************************)
(* C10 as claimed: the descriptor file is written only after steps 1 to 3  *)
(* have succeeded, and at termination it is on disk exactly when step 4    *)
(* was reached and the run is a dry run or the apply failed.               *)
(***************************************************************************)
C10_FilePresenceAsClaimed ==
    role \in RoleChoices =>
        /\ WrittenAfterThreeSteps
        /\ Terminated =>
              ((username \o "-token.yaml") \in files
                  <=> (Step4Reached /\ (dry_run \/ ApplyFailed)))

(***************************************************************************)
(* C10 amended: the descriptor file is written only after steps 1 to 3     *)
(* have succeeded; at termination of a run that reached step 4 it is on    *)
(* disk exactly when the run is a dry run or the apply failed; a run that  *)
(* did not reach step 4 has not written it and leaves the working          *)
(* directory as it found it, a file of that name included.                 *)
(***************************************************************************)
C10_FilePresence ==
    /\ WrittenAfterThreeSteps
    /\ (Terminated /\ Step4Reached) =>
          /\ FileWritten
          /\ (username \o "-token.yaml") \in files <=> (dry_run \/ ApplyFailed)
    /\ ~Step4Reached => ~FileWritten /\ files = files0

C10_Witness ==
    /\ ~dry_run
    /\ Terminated /\ exitCode = 1
    /\ ApplyFailed
    /\ (username \o "-token.yaml") \in files
    /\ (username \o "-token.yaml") \notin files0

=============================================================================
